---- MODULE Spec2Model ----
(***************************************************************************)
(* Media synthesis and pipeline orchestration of UltraAutomations.         *)
(*                                                                         *)
(* Five specifications share this module:                                  *)
(*   SpecNarration  generate_audio (scripts/generate_video.py) and         *)
(*                  generate_segmented_audio (app/core/agents/             *)
(*                  text_to_video.py) run on one script                    *)
(*   SpecVideo      VideoProcessor.create_video on one VideoInput          *)
(*   Spec           the orchestrator entry points                          *)
(*   SpecValidator  validate_paths_and_permissions (app/video/utils.py)    *)
(*                  called on one path map                                 *)
(*   SpecAuth       AuthMiddleware.__call__ (app/middleware/auth.py) on    *)
(*                  one request                                            *)
(* Strings are sequences of one-character strings; durations are integer   *)
(* milliseconds.                                                           *)
(***************************************************************************)
EXTENDS Integers, Sequences, FiniteSets, TLC

VARIABLES
    \* ---- narration stitcher ----
    fn,          \* which narration function runs on the script
    text,        \* the script handed to it
    npc,         \* its position
    parts,       \* text.split(AUDIO_SCRIPT_DELIMITER)
    items,       \* the stripped non-empty items
    idx,         \* loop index i over items
    segments,    \* the list of AudioSegments collected so far
    scratch,     \* names of the per-segment files in the temporary directory
    synth_calls, \* the texts handed to the speech collaborator, in call order
    narration,   \* the exported narration file: [written, duration in ms]
    nerror,      \* the exception the function raised: None or its kind
    \* ---- video assembler ----
    vin,              \* the VideoInput, the AudioConfig and the files behind the paths
    vpc,              \* position inside VideoProcessor.create_video
    main_audio,       \* the local main_audio
    background_music, \* the local background_music
    final_audio,      \* the local final_audio
    handles,          \* the readers opened and not yet closed
    out_file,         \* what the encoder left at output_path
    vresult,          \* the VideoProcessingResult returned
    \* ---- pipeline orchestrators ----
    entry,        \* the entry point the caller invoked
    env,          \* the mailbox and the Gmail credentials the run meets
    args,         \* the arguments of the call
    opc,          \* position of the run
    availability, \* what probe_email_availability returned
    sum_state,    \* AgentState of the ai_news_summarizer graph
    state,        \* AgentState of the email_to_youtube graph
    t2v,          \* AudioState of the text_to_video graph
    gvp,          \* locals of generate_video_pipeline
    calls,        \* how often each collaborator was called
    error_writes, \* every assignment to state["error"], in order
    exc,          \* the exception propagating out of the stage just left
    result,       \* what the entry point handed to its caller
    \* ---- resource preflight validator ----
    vp_paths,     \* the files and the disk behind the path map
    validation,   \* what validate_paths_and_permissions did: returned or raised
    \* ---- authentication middleware ----
    scope,        \* the ASGI scope: its type, path and Authorization header
    backend,      \* the Supabase environment and what get_user does with the token
    mpc,          \* position inside AuthMiddleware.__call__
    caught,       \* the exception the try block of __call__ is handling
    app_calls,    \* how often self.app was invoked
    response,     \* the response sent for the request
    \* ---- YouTube uploader ----
    uin,          \* the uploader's client state and the arguments of upload_video
    upc,          \* position inside YouTubeUploader.upload_video
    video_id,     \* the local video_id
    playlist_id,  \* the local playlist_id
    api_log,      \* the YouTube API requests executed, in order, with their outcome
    uresult,      \* the dict upload_video returned
    \* ---- output file naming of concurrent runs ----
    now,          \* the wall clock, in whole seconds
    next_uuid,    \* the identifiers uuid4 has handed out so far
    runs          \* per run: its entry point, its position and the paths it wrote

narrVars == <<fn, text, npc, parts, items, idx, segments, scratch, synth_calls,
              narration, nerror>>

videoVars == <<vin, vpc, main_audio, background_music, final_audio, handles,
               out_file, vresult>>

orchVars == <<entry, env, args, opc, availability, sum_state, state, t2v, gvp,
              calls, error_writes, exc, result>>

validatorVars == <<vp_paths, validation>>

authVars == <<scope, backend, mpc, caught, app_calls, response>>

uploadVars == <<uin, upc, video_id, playlist_id, api_log, uresult>>

namingVars == <<now, next_uuid, runs>>

vars == <<narrVars, videoVars, orchVars, validatorVars, authVars, uploadVars,
          namingVars>>

\* each component runs on its own: the other components' state stays put
NarrationOnly ==
    UNCHANGED <<videoVars, orchVars, validatorVars, authVars, uploadVars, namingVars>>
VideoOnly ==
    UNCHANGED <<narrVars, orchVars, validatorVars, authVars, uploadVars, namingVars>>
OrchestratorOnly ==
    UNCHANGED <<narrVars, videoVars, validatorVars, authVars, uploadVars, namingVars>>
ValidatorOnly ==
    UNCHANGED <<narrVars, videoVars, orchVars, authVars, uploadVars, namingVars>>
AuthOnly ==
    UNCHANGED <<narrVars, videoVars, orchVars, validatorVars, uploadVars, namingVars>>
UploadOnly ==
    UNCHANGED <<narrVars, videoVars, orchVars, validatorVars, authVars, namingVars>>
NamingOnly ==
    UNCHANGED <<narrVars, videoVars, orchVars, validatorVars, authVars, uploadVars>>

None == "None"
\* no narration file at the output path
NoFile == [written |-> FALSE, duration |-> 0]

(***************************************************************************)
(* Python string primitives                                                *)
(***************************************************************************)
IsSpace(c) == c \in {" ", "\n", "\t"}

StartsWithAt(s, sep, i) ==
    /\ i + Len(sep) - 1 <= Len(s)
    /\ SubSeq(s, i, i + Len(sep) - 1) = sep

RECURSIVE find(_, _, _)
\* str.find(sep, i): the first index >= i at which sep occurs, 0 when none
find(s, sep, i) ==
    IF i + Len(sep) - 1 > Len(s) THEN 0
    ELSE IF StartsWithAt(s, sep, i) THEN i
    ELSE find(s, sep, i + 1)

\* sep in s
contains(s, sep) == find(s, sep, 1) # 0

RECURSIVE split(_, _)
\* str.split(sep): non-overlapping occurrences, scanned left to right
split(s, sep) ==
    LET p == find(s, sep, 1) IN
    IF p = 0 THEN <<s>>
    ELSE <<SubSeq(s, 1, p - 1)>> \o split(SubSeq(s, p + Len(sep), Len(s)), sep)

RECURSIVE lstrip(_)
lstrip(s) == IF s # <<>> /\ IsSpace(Head(s)) THEN lstrip(Tail(s)) ELSE s

RECURSIVE rstrip(_)
rstrip(s) ==
    IF s # <<>> /\ IsSpace(s[Len(s)]) THEN rstrip(SubSeq(s, 1, Len(s) - 1)) ELSE s

\* str.strip()
strip(s) == rstrip(lstrip(s))

(***************************************************************************)
(* Script grammar                                                          *)
(***************************************************************************)
AUDIO_SCRIPT_DELIMITER == <<"=", "=", "=">>
AUDIO_SCRIPT_ITEM_DELIMITER == <<"<", "i", "t", "e", "m", ">">>

section_pause_ms == 1000
item_pause_ms == 500

\* the comprehension without its `if i.strip()` filter
SelectStripped_KeepsEmpty(pieces) == [i \in 1..Len(pieces) |-> strip(pieces[i])]

RECURSIVE SelectStripped(_)
\* [i.strip() for i in pieces if i.strip()]
SelectStripped(pieces) ==
    IF pieces = <<>> THEN <<>>
    ELSE LET h == strip(Head(pieces)) IN
         (IF h # <<>> THEN <<h>> ELSE <<>>) \o SelectStripped(Tail(pieces))

\* items = [i.strip() for i in items_text.split(AUDIO_SCRIPT_ITEM_DELIMITER) if i.strip()]
ItemsOf(items_text) == SelectStripped(split(items_text, AUDIO_SCRIPT_ITEM_DELIMITER))

(***************************************************************************)
(* Bounded inputs                                                          *)
(***************************************************************************)
MaxTokens == 5

Tokens == { <<"a">>, <<" ">>, <<"=">>, AUDIO_SCRIPT_DELIMITER, AUDIO_SCRIPT_ITEM_DELIMITER }

RECURSIVE ScriptsOfLen(_)
ScriptsOfLen(n) ==
    IF n = 0 THEN { <<>> }
    ELSE { t \o s : t \in Tokens, s \in ScriptsOfLen(n - 1) }

Scripts == UNION { ScriptsOfLen(n) : n \in 0..MaxTokens }

\* durations the speech collaborator may return for one unit
SynthDurations == {800, 1500}

NarrationFns == {"generate_audio", "generate_segmented_audio"}

(***************************************************************************)
(* AudioSegment values                                                     *)
(***************************************************************************)
Speech(name, t, d) == [kind |-> "speech", name |-> name, text |-> t, duration |-> d]
\* AudioSegment.silent(duration=ms)
silent(ms) == [kind |-> "silence", name |-> "", text |-> <<>>, duration |-> ms]

RECURSIVE sum(_)
\* sum(segments): concatenation, durations add
sum(segs) == IF segs = <<>> THEN 0 ELSE Head(segs).duration + sum(Tail(segs))

(***************************************************************************)
(* Narration stitcher: scripts/generate_video.py generate_audio            *)
(***************************************************************************)
NarrationStart(functions, scripts) ==
    /\ fn \in functions
    /\ text \in scripts
    /\ npc = "start"
    /\ parts = <<>>
    /\ items = <<>>
    /\ idx = 0
    /\ segments = <<>>
    /\ scratch = {}
    /\ synth_calls = <<>>
    /\ narration = NoFile
    /\ nerror = None

\* a scratch directory that outlives the exception
SynthesisRaises_KeepsScratch(name, t) ==
    /\ synth_calls' = Append(synth_calls, [name |-> name, text |-> t])
    /\ scratch' = scratch
    /\ npc' = "raised"
    /\ nerror' = "SynthesisFailed"
    /\ UNCHANGED <<fn, text, parts, items, idx, segments, narration>>

\* an exception leaves the `with tempfile.TemporaryDirectory()` block: the
\* scratch files go, nothing is exported, the exception reaches the caller
SynthesisRaises(name, t) ==
    /\ synth_calls' = Append(synth_calls, [name |-> name, text |-> t])
    /\ scratch' = {}
    /\ npc' = "raised"
    /\ nerror' = "SynthesisFailed"
    /\ UNCHANGED <<fn, text, parts, items, idx, segments, narration>>

\* if AUDIO_SCRIPT_DELIMITER in text: parts = text.split(...); if len(parts) == 3
GA_Begin ==
    /\ fn = "generate_audio" /\ npc = "start"
    /\ NarrationOnly
    /\ IF contains(text, AUDIO_SCRIPT_DELIMITER)
       THEN /\ parts' = split(text, AUDIO_SCRIPT_DELIMITER)
            /\ npc' = IF Len(parts') = 3 THEN "opening" ELSE "full"
       ELSE /\ parts' = parts
            /\ npc' = "full"
    /\ UNCHANGED <<fn, text, items, idx, segments, scratch, synth_calls, narration, nerror>>

GA_Opening ==
    /\ fn = "generate_audio" /\ npc = "opening"
    /\ NarrationOnly
    /\ LET opening == strip(parts[1]) IN
       \/ SynthesisRaises("opening", opening)
       \/ \E r \in SynthDurations :
              /\ synth_calls' = Append(synth_calls, [name |-> "opening", text |-> opening])
              /\ scratch' = scratch \cup {<<"opening", 0>>}
              /\ segments' = segments \o <<Speech("opening", opening, r), silent(section_pause_ms)>>
              /\ items' = ItemsOf(parts[2])
              /\ idx' = 0
              /\ npc' = "items"
              /\ UNCHANGED <<fn, text, parts, narration, nerror>>

\* the loop with the item pause appended after every item, the last included
GA_Item_PauseAfterEvery ==
    /\ fn = "generate_audio" /\ npc = "items" /\ idx < Len(items)
    /\ NarrationOnly
    /\ LET item == items[idx + 1] IN
       \/ SynthesisRaises("item", item)
       \/ \E r \in SynthDurations :
              /\ synth_calls' = Append(synth_calls, [name |-> "item", text |-> item])
              /\ scratch' = scratch \cup {<<"item", idx>>}
              /\ segments' = segments \o <<Speech("item", item, r)>>
                                \o <<silent(item_pause_ms)>>
              /\ idx' = idx + 1
              /\ UNCHANGED <<fn, text, npc, parts, items, narration, nerror>>

GA_Item ==
    /\ fn = "generate_audio" /\ npc = "items" /\ idx < Len(items)
    /\ NarrationOnly
    /\ LET item == items[idx + 1] IN
       \/ SynthesisRaises("item", item)
       \/ \E r \in SynthDurations :
              /\ synth_calls' = Append(synth_calls, [name |-> "item", text |-> item])
              /\ scratch' = scratch \cup {<<"item", idx>>}
              /\ segments' = segments \o <<Speech("item", item, r)>>
                                \o (IF idx < Len(items) - 1 THEN <<silent(item_pause_ms)>> ELSE <<>>)
              /\ idx' = idx + 1
              /\ UNCHANGED <<fn, text, npc, parts, items, narration, nerror>>

GA_Closing ==
    /\ fn = "generate_audio" /\ npc = "items" /\ idx = Len(items)
    /\ NarrationOnly
    /\ LET closing == strip(parts[3]) IN
       \/ SynthesisRaises("closing", closing)
       \/ \E r \in SynthDurations :
              /\ synth_calls' = Append(synth_calls, [name |-> "closing", text |-> closing])
              /\ scratch' = scratch \cup {<<"closing", 0>>}
              /\ segments' = segments \o <<silent(section_pause_ms), Speech("closing", closing, r)>>
              /\ npc' = "export"
              /\ UNCHANGED <<fn, text, parts, items, idx, narration, nerror>>

\* both `else` branches: segments.append(generate_audio_segment(text, temp_dir, "full"))
GA_Full ==
    /\ fn = "generate_audio" /\ npc = "full"
    /\ NarrationOnly
    /\ \/ SynthesisRaises("full", text)
       \/ \E r \in SynthDurations :
              /\ synth_calls' = Append(synth_calls, [name |-> "full", text |-> text])
              /\ scratch' = scratch \cup {<<"full", 0>>}
              /\ segments' = segments \o <<Speech("full", text, r)>>
              /\ npc' = "export"
              /\ UNCHANGED <<fn, text, parts, items, idx, narration, nerror>>

\* final_audio = sum(segments); final_audio.export(output_path); the with block ends
GA_Export ==
    /\ fn = "generate_audio" /\ npc = "export"
    /\ NarrationOnly
    /\ narration' = [written |-> TRUE, duration |-> sum(segments)]
    /\ scratch' = {}
    /\ npc' = "done"
    /\ UNCHANGED <<fn, text, parts, items, idx, segments, synth_calls, nerror>>

(***************************************************************************)
(* Narration stitcher: app/core/agents/text_to_video.py                    *)
(* generate_segmented_audio                                                *)
(***************************************************************************)
\* segments = text.split(AUDIO_SCRIPT_DELIMITER); if len(segments) != 3: raise ValueError
SA_Begin ==
    /\ fn = "generate_segmented_audio" /\ npc = "start"
    /\ NarrationOnly
    /\ parts' = split(text, AUDIO_SCRIPT_DELIMITER)
    /\ IF Len(parts') # 3
       THEN /\ npc' = "raised"
            /\ nerror' = "MalformedScript"
            /\ items' = items
       ELSE /\ items' = ItemsOf(parts'[2])
            /\ npc' = "opening"
            /\ nerror' = nerror
    /\ UNCHANGED <<fn, text, idx, segments, scratch, synth_calls, narration>>

SA_Opening ==
    /\ fn = "generate_segmented_audio" /\ npc = "opening"
    /\ NarrationOnly
    /\ LET opening == strip(parts[1]) IN
       \/ SynthesisRaises("opening", opening)
       \/ \E r \in SynthDurations :
              /\ synth_calls' = Append(synth_calls, [name |-> "opening", text |-> opening])
              /\ scratch' = scratch \cup {<<"opening", 0>>}
              /\ segments' = segments \o <<Speech("opening", opening, r), silent(section_pause_ms)>>
              /\ idx' = 0
              /\ npc' = "items"
              /\ UNCHANGED <<fn, text, parts, items, narration, nerror>>

\* the loop with the item pause put in front of every item
SA_Item_PauseBefore ==
    /\ fn = "generate_segmented_audio" /\ npc = "items" /\ idx < Len(items)
    /\ NarrationOnly
    /\ LET item == items[idx + 1] IN
       \/ SynthesisRaises("item", item)
       \/ \E r \in SynthDurations :
              /\ synth_calls' = Append(synth_calls, [name |-> "item", text |-> item])
              /\ scratch' = scratch \cup {<<"item", idx>>}
              /\ segments' = segments \o <<silent(item_pause_ms), Speech("item", item, r)>>
              /\ idx' = idx + 1
              /\ UNCHANGED <<fn, text, npc, parts, items, narration, nerror>>

SA_Item ==
    /\ fn = "generate_segmented_audio" /\ npc = "items" /\ idx < Len(items)
    /\ NarrationOnly
    /\ LET item == items[idx + 1] IN
       \/ SynthesisRaises("item", item)
       \/ \E r \in SynthDurations :
              /\ synth_calls' = Append(synth_calls, [name |-> "item", text |-> item])
              /\ scratch' = scratch \cup {<<"item", idx>>}
              /\ segments' = segments \o <<Speech("item", item, r)>>
                                \o (IF idx < Len(items) - 1 THEN <<silent(item_pause_ms)>> ELSE <<>>)
              /\ idx' = idx + 1
              /\ UNCHANGED <<fn, text, npc, parts, items, narration, nerror>>

SA_Closing ==
    /\ fn = "generate_segmented_audio" /\ npc = "items" /\ idx = Len(items)
    /\ NarrationOnly
    /\ LET closing == strip(parts[3]) IN
       \/ SynthesisRaises("closing", closing)
       \/ \E r \in SynthDurations :
              /\ synth_calls' = Append(synth_calls, [name |-> "closing", text |-> closing])
              /\ scratch' = scratch \cup {<<"closing", 0>>}
              /\ segments' = segments \o <<silent(section_pause_ms), Speech("closing", closing, r)>>
              /\ npc' = "export"
              /\ UNCHANGED <<fn, text, parts, items, idx, narration, nerror>>

SA_Export ==
    /\ fn = "generate_segmented_audio" /\ npc = "export"
    /\ NarrationOnly
    /\ narration' = [written |-> TRUE, duration |-> sum(segments)]
    /\ scratch' = {}
    /\ npc' = "done"
    /\ UNCHANGED <<fn, text, parts, items, idx, segments, synth_calls, nerror>>

NarrationNext ==
    \/ GA_Begin \/ GA_Opening \/ GA_Item \/ GA_Closing \/ GA_Full \/ GA_Export
    \/ SA_Begin \/ SA_Opening \/ SA_Item \/ SA_Closing \/ SA_Export

(***************************************************************************)
(* moviepy audio clips.  A clip is its nominal duration and the layers     *)
(* that sound in it: a layer plays source `src` from `start` for `len`,    *)
(* scaled by every factor in `gain` (percent).                             *)
(***************************************************************************)
NoClip == [duration |-> 0, layers |-> <<>>]

\* AudioFileClip(path) of a file lasting d
AudioFileClip(src, d) ==
    [duration |-> d,
     layers   |-> << [src |-> src, start |-> 0, len |-> d, gain |-> <<>>] >>]

\* clip.volumex(factor)
volumex(clip, factor) ==
    [duration |-> clip.duration,
     layers   |-> [i \in 1..Len(clip.layers) |->
                     [clip.layers[i] EXCEPT !.gain = Append(@, factor)]]]

MaxOf(S) == CHOOSE m \in S : \A x \in S : x <= m

RECURSIVE Flatten(_)
Flatten(clips) ==
    IF clips = <<>> THEN <<>> ELSE Head(clips).layers \o Flatten(Tail(clips))

\* CompositeAudioClip(clips): every clip keeps its own start (0 unless set),
\* the duration is the largest end
CompositeAudioClip(clips) ==
    [duration |-> MaxOf({ clips[i].duration : i \in 1..Len(clips) }),
     layers   |-> Flatten(clips)]

\* clip.subclip(t_start, t_end): time is shifted by t_start and the duration
\* is set to t_end - t_start, whatever the clip held
subclip(clip, t_start, t_end) ==
    [duration |-> t_end - t_start,
     layers   |-> [i \in 1..Len(clip.layers) |->
                     [clip.layers[i] EXCEPT !.start = @ - t_start]]]

\* [x] * n
Repeat(x, n) == [i \in 1..n |-> x]

(***************************************************************************)
(* Resource preflight validator: app/video/utils.py                        *)
(***************************************************************************)
min_free_space_gb == 1

\* the first declared input path, in dict order, that is not on disk
MissingInput(fs) ==
    IF ~fs.main_audio THEN "main_audio"
    ELSE IF ~fs.image THEN "image"
    ELSE IF fs.background_music = "missing" THEN "background_music"
    ELSE None

\* f"{file_type} file not found: {file_path}"
FileNotFound(file_type) ==
    IF file_type = "main_audio" THEN "main_audio file not found"
    ELSE IF file_type = "image" THEN "image file not found"
    ELSE "background_music file not found"

\* the checks with the disk space looked at before the input files
validate_paths_and_permissions_SpaceFirst(fs, min_gb) ==
    IF ~fs.out_dir_exists /\ ~fs.mkdir_ok
      THEN [raised |-> TRUE, is_valid |-> FALSE, error_msg |-> "mkdir failed"]
    ELSE IF ~fs.writable
      THEN [raised |-> FALSE, is_valid |-> FALSE, error_msg |-> "No write permission for directory"]
    ELSE IF fs.free_gb < min_gb
      THEN [raised |-> FALSE, is_valid |-> FALSE, error_msg |-> "Insufficient disk space"]
    ELSE IF MissingInput(fs) # None
      THEN [raised |-> FALSE, is_valid |-> FALSE, error_msg |-> FileNotFound(MissingInput(fs))]
    ELSE [raised |-> FALSE, is_valid |-> TRUE, error_msg |-> None]

validate_paths_and_permissions(fs, min_gb) ==
    IF ~fs.out_dir_exists /\ ~fs.mkdir_ok
      THEN [raised |-> TRUE, is_valid |-> FALSE, error_msg |-> "mkdir failed"]
    ELSE IF ~fs.writable
      THEN [raised |-> FALSE, is_valid |-> FALSE, error_msg |-> "No write permission for directory"]
    ELSE IF MissingInput(fs) # None
      THEN [raised |-> FALSE, is_valid |-> FALSE, error_msg |-> FileNotFound(MissingInput(fs))]
    ELSE IF fs.free_gb < min_gb
      THEN [raised |-> FALSE, is_valid |-> FALSE, error_msg |-> "Insufficient disk space"]
    ELSE [raised |-> FALSE, is_valid |-> TRUE, error_msg |-> None]

NoValidation == [called |-> FALSE, raised |-> FALSE, is_valid |-> FALSE, error_msg |-> None]

\* one call of validate_paths_and_permissions(paths, min_free_space_gb):
\* the directory is created when it can be, and the call returns or raises
VP_Call ==
    /\ ~validation.called
    /\ ValidatorOnly
    /\ LET v == validate_paths_and_permissions(vp_paths, min_free_space_gb) IN
       validation' = [called |-> TRUE, raised |-> v.raised, is_valid |-> v.is_valid,
                      error_msg |-> v.error_msg]
    /\ vp_paths' = IF ~vp_paths.out_dir_exists /\ vp_paths.mkdir_ok
                   THEN [vp_paths EXCEPT !.out_dir_exists = TRUE]
                   ELSE vp_paths

ValidatorNext == VP_Call

(***************************************************************************)
(* Video assembler: app/video/processor.py VideoProcessor.create_video     *)
(***************************************************************************)
MaxMainDuration == 3
MaxBackgroundDuration == 4
MaxFreeGb == 2
Volumes == {0, 50, 100}

FileSystems ==
    [out_dir_exists : BOOLEAN, mkdir_ok : BOOLEAN, writable : BOOLEAN,
     main_audio : BOOLEAN, image : BOOLEAN,
     background_music : {"None", "missing", "present"},
     free_gb : 0..MaxFreeGb]

VideoInputs ==
    [fs : FileSystems,
     main_duration : 1..MaxMainDuration,
     background_duration : 1..MaxBackgroundDuration,
     main_audio_volume : Volumes,
     background_music_volume : Volumes]

NoResult == [returned |-> FALSE, success |-> FALSE, output_path |-> FALSE, error |-> None]

VideoProcessingResult(success, output_path, error) ==
    [returned |-> TRUE, success |-> success, output_path |-> output_path, error |-> error]

VideoStart(inputs) ==
    /\ vin \in inputs
    /\ vpc = "construct"
    /\ main_audio = NoClip
    /\ background_music = NoClip
    /\ final_audio = NoClip
    /\ handles = {}
    /\ out_file = "missing"
    /\ vresult = NoResult

\* an `except` clause that drops the message
CV_Fails_NoError(msg) ==
    /\ vresult' = VideoProcessingResult(FALSE, FALSE, None)
    /\ vpc' = "returned"

\* the `except Exception as e` of create_video
CV_Fails(msg) ==
    /\ vresult' = VideoProcessingResult(FALSE, FALSE, msg)
    /\ vpc' = "returned"

\* VideoInput(...): the validator creates the parent directory of every path
CV_Construct ==
    /\ vpc = "construct"
    /\ VideoOnly
    /\ IF vin.fs.out_dir_exists
       THEN vin' = vin /\ vpc' = "validate"
       ELSE IF vin.fs.mkdir_ok
            THEN vin' = [vin EXCEPT !.fs.out_dir_exists = TRUE] /\ vpc' = "validate"
            ELSE vin' = vin /\ vpc' = "construct_raised"
    /\ UNCHANGED <<main_audio, background_music, final_audio, handles, out_file, vresult>>

CV_Validate ==
    /\ vpc = "validate"
    /\ VideoOnly
    /\ LET v == validate_paths_and_permissions(vin.fs, min_free_space_gb) IN
       IF v.raised \/ ~v.is_valid
       THEN CV_Fails(v.error_msg)
       ELSE vpc' = "load" /\ vresult' = vresult
    /\ UNCHANGED <<vin, main_audio, background_music, final_audio, handles, out_file>>

\* main_audio = AudioFileClip(...); image_clip = ImageClip(...).set_duration(...)
CV_LoadClips ==
    /\ vpc = "load"
    /\ VideoOnly
    /\ \/ /\ CV_Fails("main audio unreadable")
          /\ UNCHANGED <<main_audio, handles>>
       \/ /\ CV_Fails("image unreadable")
          /\ main_audio' = AudioFileClip("main", vin.main_duration)
          /\ handles' = handles \cup {"main_audio"}
       \/ /\ main_audio' = AudioFileClip("main", vin.main_duration)
          /\ handles' = handles \cup {"main_audio", "image_clip"}
          /\ vpc' = "background"
          /\ vresult' = vresult
    /\ UNCHANGED <<vin, background_music, final_audio, out_file>>

\* n_loops = int(main_audio.duration / background_music.duration) + 1
n_loops(main, background) == (main.duration \div background.duration) + 1

\* background_music = CompositeAudioClip([background_music] * n_loops)
\* background_music = background_music.subclip(0, main_audio.duration)
LoopBackground(main, background) ==
    IF background.duration < main.duration
    THEN subclip(CompositeAudioClip(Repeat(background, n_loops(main, background))),
                 0, main.duration)
    ELSE background

\* the `if input_data.background_music_path:` statement with its try/except
CV_Background ==
    /\ vpc = "background"
    /\ VideoOnly
    /\ LET mv == vin.main_audio_volume
           bv == vin.background_music_volume
           loaded == AudioFileClip("background", vin.background_duration)
           looped == LoopBackground(main_audio, loaded)
       IN
       IF vin.fs.background_music = "None"
       THEN /\ final_audio' = volumex(main_audio, mv)
            /\ UNCHANGED <<main_audio, background_music, handles>>
       ELSE \/ \* AudioFileClip(background_music_path) raises
               /\ final_audio' = volumex(main_audio, mv)
               /\ UNCHANGED <<main_audio, background_music, handles>>
            \/ \* looping raises
               /\ loaded.duration < main_audio.duration
               /\ background_music' = loaded
               /\ handles' = handles \cup {"background_music"}
               /\ final_audio' = volumex(main_audio, mv)
               /\ UNCHANGED main_audio
            \/ \* background_music.volumex or the final CompositeAudioClip
               \* raises, after main_audio was rebound to the scaled clip
               /\ main_audio' = volumex(main_audio, mv)
               /\ background_music' = looped
               /\ handles' = handles \cup {"background_music"}
               /\ final_audio' = volumex(main_audio', mv)
            \/ /\ main_audio' = volumex(main_audio, mv)
               /\ background_music' = volumex(looped, bv)
               /\ handles' = handles \cup {"background_music"}
               /\ final_audio' = CompositeAudioClip(<<main_audio', background_music'>>)
    /\ vpc' = "write"
    /\ UNCHANGED <<vin, out_file, vresult>>

\* image_clip.set_audio(final_audio); image_clip.write_videofile(...)
CV_Write ==
    /\ vpc = "write"
    /\ VideoOnly
    /\ \/ /\ CV_Fails("encode failed")
          /\ out_file' \in {"missing", "empty"}
       \/ /\ out_file' \in {"missing", "empty", "written"}
          /\ vpc' = "cleanup"
          /\ vresult' = vresult
    /\ UNCHANGED <<vin, main_audio, background_music, final_audio, handles>>

\* main_audio.close(); if background_music_path: background_music.close();
\* image_clip.close(); return VideoProcessingResult(success=True, ...)
CV_Cleanup ==
    /\ vpc = "cleanup"
    /\ VideoOnly
    /\ IF vin.fs.background_music # "None" /\ background_music = NoClip
       THEN \* background_music was never bound: NameError inside the try
            /\ handles' = handles \ {"main_audio"}
            /\ CV_Fails("background_music referenced before assignment")
       ELSE /\ handles' = handles \ {"main_audio", "background_music", "image_clip"}
            /\ vresult' = VideoProcessingResult(TRUE, TRUE, None)
            /\ vpc' = "returned"
    /\ UNCHANGED <<vin, main_audio, background_music, final_audio, out_file>>

VideoNext ==
    \/ CV_Construct \/ CV_Validate \/ CV_LoadClips \/ CV_Background
    \/ CV_Write \/ CV_Cleanup

(***************************************************************************)
(* Pipeline orchestrators.  Messages are sequences of strings, outermost   *)
(* wrapper first; the empty sequence stands for None.                      *)
(***************************************************************************)
NoError == <<>>
Wrap(prefix, e) == <<prefix>> \o e

MaxEmails == 2

\* SOURCES = ['news@smol.ai']: one source
Envs == [gmail : {"ok", "missing_env", "api_error"}, matching : 0..MaxEmails]

ExampleStructured ==
    <<"a">> \o AUDIO_SCRIPT_DELIMITER \o AUDIO_SCRIPT_ITEM_DELIMITER \o <<"a">>
    \o AUDIO_SCRIPT_DELIMITER \o <<"a">>
ExampleMalformed == <<"a">> \o AUDIO_SCRIPT_DELIMITER \o <<"a">>
ExamplePlain == <<"a">>
OrchScripts == {ExampleStructured, ExampleMalformed, ExamplePlain}

NoSummary == [set |-> FALSE, audio_script |-> <<>>]
NoCalls ==
    [probe |-> 0, fetch |-> 0, summarize |-> 0, tts |-> 0, image |-> 0,
     thumbnail |-> 0, encode |-> 0, upload |-> 0]
NoAvailability == [probed |-> FALSE, count |-> 0, error |-> ""]
InitialSumState == [emails |-> 0, summary |-> NoSummary, error |-> NoError]
InitialAgentState ==
    [summary |-> NoSummary, video_result |-> FALSE, thumbnail_path |-> "None",
     error |-> NoError]
NoAudioState ==
    [text |-> <<>>, thumbnail_path |-> "None", audio_filepath |-> "None",
     image_filepath |-> "None", video_filepath |-> "None", youtube_video_id |-> "None"]
NoPipeline ==
    [text |-> <<>>, thumbnail_path |-> "None", upload |-> FALSE,
     generate_new_thumbnail |-> TRUE, audio_path |-> "None",
     final_thumbnail |-> "None", video_path |-> "None"]
NoOutcome ==
    [kind |-> "none", status |-> "none", error |-> NoError, audio_path |-> "None",
     thumbnail_path |-> "None", video_path |-> "None", youtube_video_id |-> "None"]

\* an exception reaches the caller of the entry point
Raised(e) == [NoOutcome EXCEPT !.kind = "raised", !.error = e]

DefaultArgs ==
    [date |-> "None", text |-> <<>>, thumbnail_path |-> "None", upload |-> FALSE,
     generate_new_thumbnail |-> TRUE]

\* the calls a caller can make
Calls ==
    { [entry |-> "email_to_youtube", env |-> e, args |-> [DefaultArgs EXCEPT !.date = d]]
        : e \in Envs, d \in {"None", "date"} }
    \cup
    { [entry |-> "email_to_video_pipeline", env |-> e,
       args |-> [DefaultArgs EXCEPT !.date = d, !.upload = u]]
        : e \in Envs, d \in {"None", "date"}, u \in BOOLEAN }
    \cup
    { [entry |-> "text_to_youtube", env |-> [gmail |-> "ok", matching |-> 0],
       args |-> [DefaultArgs EXCEPT !.text = t, !.thumbnail_path = th]]
        : t \in OrchScripts, th \in {"None", "exists", "missing"} }
    \cup
    { [entry |-> "generate_video_pipeline", env |-> [gmail |-> "ok", matching |-> 0],
       args |-> [DefaultArgs EXCEPT !.text = t, !.thumbnail_path = th, !.upload = u,
                                    !.generate_new_thumbnail = g]]
        : t \in OrchScripts, th \in {"None", "exists", "missing"}, u \in BOOLEAN,
          g \in BOOLEAN }

OrchestratorStart(callset) ==
    /\ \E c \in callset : entry = c.entry /\ env = c.env /\ args = c.args
    /\ opc = "start"
    /\ availability = NoAvailability
    /\ sum_state = InitialSumState
    /\ state = InitialAgentState
    /\ t2v = NoAudioState
    /\ gvp = NoPipeline
    /\ calls = NoCalls
    /\ error_writes = <<>>
    /\ exc = NoError
    /\ result = NoOutcome

Called(c) == calls' = [calls EXCEPT ![c] = @ + 1]

(***************************************************************************)
(* Email collaborator                                                      *)
(***************************************************************************)
\* the report of the one source: its count and, on failure, an error
probe_email_availability(e) ==
    [probed |-> TRUE,
     count  |-> IF e.gmail = "ok" THEN e.matching ELSE 0,
     error  |-> IF e.gmail = "missing_env" THEN "missing_gmail_env:GMAIL_REFRESH_TOKEN"
                ELSE IF e.gmail = "api_error" THEN "gmail_api_error"
                ELSE ""]

\* startswith("missing_gmail_env:")
IsMissingGmailEnv(error) == error = "missing_gmail_env:GMAIL_REFRESH_TOKEN"

\* GmailOAuthReader.get_emails: [] when authentication or the query fails
get_emails_from_gmail(e) == IF e.gmail = "ok" THEN e.matching ELSE 0

(***************************************************************************)
(* app/core/agents/ai_news_summarizer.py: the fetch_emails ->              *)
(* generate_summary graph behind generate_ai_news_summary                  *)
(***************************************************************************)
SUM_fetch_emails_node ==
    /\ opc = "sum_fetch"
    /\ OrchestratorOnly
    /\ IF args.date = "None"
       THEN \* state.get("target_date", ...) finds the key, holding None
            /\ sum_state' = [sum_state EXCEPT
                   !.error = <<"'NoneType' object has no attribute 'strftime'">>]
            /\ calls' = calls
       ELSE /\ Called("fetch")
            /\ LET n == get_emails_from_gmail(env) IN
               \/ /\ n > 0
                  /\ sum_state' = [sum_state EXCEPT !.emails = n]
               \/ /\ n > 0      \* datetime.strptime rejects a Date header
                  /\ sum_state' = [sum_state EXCEPT !.error = <<"time data does not match format">>]
               \/ /\ n = 0
                  /\ sum_state' = [sum_state EXCEPT !.error = <<"No emails found for date">>]
    /\ opc' = "sum_generate"
    /\ UNCHANGED <<entry, env, args, availability, state, t2v, gvp, error_writes, exc, result>>

SUM_generate_summary_node ==
    /\ opc = "sum_generate"
    /\ OrchestratorOnly
    /\ IF sum_state.emails = 0
       THEN \* no email content: return {}
            UNCHANGED <<sum_state, calls>>
       ELSE \/ \* the prompt store fails before the model is called
               /\ sum_state' = [sum_state EXCEPT !.error = <<"Prompt 'news_summarizer' not found in Langfuse">>]
               /\ calls' = calls
            \/ /\ Called("summarize")
               /\ sum_state' = [sum_state EXCEPT !.error = <<"summarization failed">>]
            \/ /\ Called("summarize")
               /\ \E script \in OrchScripts :
                    sum_state' = [sum_state EXCEPT
                        !.summary = [set |-> TRUE, audio_script |-> script]]
    /\ opc' = "sum_return"
    /\ UNCHANGED <<entry, env, args, availability, state, t2v, gvp, error_writes, exc, result>>

\* generate_ai_news_summary after the graph: raise on an error, else FinalOutput
generate_ai_news_summary(final_state) ==
    IF final_state.error # NoError \/ ~final_state.summary.set
    THEN [raised |-> TRUE, summary |-> NoSummary,
          error |-> Wrap("Failed to generate daily summary", final_state.error)]
    ELSE [raised |-> FALSE, summary |-> final_state.summary, error |-> NoError]

(***************************************************************************)
(* app/core/agents/email_to_youtube.py                                     *)
(***************************************************************************)
\* state["error"] = str(e)
WriteError(stage, e) ==
    /\ state' = [state EXCEPT !.error = e]
    /\ error_writes' = Append(error_writes, [stage |-> stage, error |-> e])

\* the preflight with the total looked at before the credentials error
E2Y_Preflight_CountFirst ==
    /\ entry = "email_to_youtube" /\ opc = "start"
    /\ OrchestratorOnly
    /\ Called("probe")
    /\ availability' = probe_email_availability(env)
    /\ IF availability'.count = 0
       THEN /\ result' = [NoOutcome EXCEPT !.kind = "returned", !.status = "skipped"]
            /\ opc' = "returned"
       ELSE IF IsMissingGmailEnv(availability'.error)
       THEN /\ result' = Raised(<<"Gmail credentials missing", availability'.error>>)
            /\ opc' = "returned"
       ELSE /\ result' = result
            /\ opc' = "sum_fetch"
    /\ UNCHANGED <<entry, env, args, sum_state, state, t2v, gvp, error_writes, exc>>

\* the preflight of email_to_youtube
E2Y_Preflight ==
    /\ entry = "email_to_youtube" /\ opc = "start"
    /\ OrchestratorOnly
    /\ Called("probe")
    /\ availability' = probe_email_availability(env)
    /\ IF IsMissingGmailEnv(availability'.error)
       THEN /\ result' = Raised(<<"Gmail credentials missing", availability'.error>>)
            /\ opc' = "returned"
       ELSE IF availability'.count = 0
       THEN /\ result' = [NoOutcome EXCEPT !.kind = "returned", !.status = "skipped"]
            /\ opc' = "returned"
       ELSE /\ result' = result
            /\ opc' = "sum_fetch"
    /\ UNCHANGED <<entry, env, args, sum_state, state, t2v, gvp, error_writes, exc>>

E2Y_generate_summary_node ==
    /\ entry = "email_to_youtube" /\ opc = "sum_return"
    /\ OrchestratorOnly
    /\ LET summary_result == generate_ai_news_summary(sum_state) IN
       IF summary_result.raised
       THEN WriteError("generate_summary", summary_result.error)
       ELSE /\ state' = [state EXCEPT !.summary = summary_result.summary]
            /\ error_writes' = error_writes
    /\ opc' = "generate_thumbnail"
    /\ UNCHANGED <<entry, env, args, availability, sum_state, t2v, gvp, calls, exc, result>>

E2Y_generate_thumbnail_node ==
    /\ entry = "email_to_youtube" /\ opc = "generate_thumbnail"
    /\ OrchestratorOnly
    /\ IF ~state.summary.set
       THEN /\ WriteError("generate_thumbnail", <<"No summary available for thumbnail generation">>)
            /\ calls' = calls
       ELSE /\ Called("thumbnail")
            /\ \/ WriteError("generate_thumbnail", <<"thumbnail template unreadable">>)
               \/ /\ state' = [state EXCEPT !.thumbnail_path = "exists"]
                  /\ error_writes' = error_writes
    /\ opc' = "create_video"
    /\ UNCHANGED <<entry, env, args, availability, sum_state, t2v, gvp, exc, result>>

\* create_video_node up to its call of text_to_youtube
E2Y_create_video_node ==
    /\ entry = "email_to_youtube" /\ opc = "create_video"
    /\ OrchestratorOnly
    /\ IF ~state.summary.set
       THEN /\ WriteError("create_video", <<"No summary available for video creation">>)
            /\ t2v' = t2v
            /\ opc' = "e2y_return"
       ELSE /\ t2v' = [NoAudioState EXCEPT !.text = state.summary.audio_script,
                                          !.thumbnail_path = state.thumbnail_path,
                                          !.image_filepath = state.thumbnail_path]
            /\ opc' = "t2y_audio"
            /\ UNCHANGED <<state, error_writes>>
    /\ UNCHANGED <<entry, env, args, availability, sum_state, gvp, calls, exc, result>>

\* create_video_node once text_to_youtube has returned or raised
E2Y_create_video_node_returns ==
    /\ entry = "email_to_youtube" /\ opc = "t2y_return"
    /\ OrchestratorOnly
    /\ IF exc # NoError
       THEN WriteError("create_video", exc)
       ELSE /\ state' = [state EXCEPT !.video_result = TRUE]
            /\ error_writes' = error_writes
    /\ exc' = NoError
    /\ opc' = "e2y_return"
    /\ UNCHANGED <<entry, env, args, availability, sum_state, t2v, gvp, calls, result>>

\* if final_state["error"]: raise Exception(final_state["error"]); else the success dict
E2Y_Return ==
    /\ entry = "email_to_youtube" /\ opc = "e2y_return"
    /\ OrchestratorOnly
    /\ result' = IF state.error # NoError
                 THEN Raised(state.error)
                 ELSE [NoOutcome EXCEPT !.kind = "returned", !.status = "success",
                                        !.thumbnail_path = state.thumbnail_path,
                                        !.video_path = t2v.video_filepath,
                                        !.youtube_video_id = t2v.youtube_video_id]
    /\ opc' = "returned"
    /\ UNCHANGED <<entry, env, args, availability, sum_state, state, t2v, gvp, calls,
                   error_writes, exc>>

(***************************************************************************)
(* app/core/agents/text_to_youtube.py and the text_to_video graph          *)
(***************************************************************************)
\* an exception leaves text_to_video_app.invoke or the upload: text_to_youtube re-raises
T2Y_Raises(e) ==
    /\ exc' = e
    /\ opc' = "t2y_return"

T2Y_Start ==
    /\ entry = "text_to_youtube" /\ opc = "start"
    /\ OrchestratorOnly
    /\ t2v' = [NoAudioState EXCEPT !.text = args.text,
                                   !.thumbnail_path = args.thumbnail_path,
                                   !.image_filepath = args.thumbnail_path]
    /\ opc' = "t2y_audio"
    /\ UNCHANGED <<entry, env, args, availability, sum_state, state, gvp, calls,
                   error_writes, exc, result>>

\* node generate_audio: text_to_audio -> generate_segmented_audio
T2V_text_to_audio ==
    /\ opc = "t2y_audio"
    /\ OrchestratorOnly
    /\ IF Len(split(t2v.text, AUDIO_SCRIPT_DELIMITER)) # 3
       THEN /\ T2Y_Raises(<<"Script must contain exactly two '===' separators">>)
            /\ UNCHANGED <<t2v, calls>>
       ELSE /\ Called("tts")
            /\ \/ T2Y_Raises(<<"speech synthesis failed">>) /\ t2v' = t2v
               \/ /\ t2v' = [t2v EXCEPT !.audio_filepath = "exists"]
                  /\ opc' = "t2y_image"
                  /\ exc' = exc
    /\ UNCHANGED <<entry, env, args, availability, sum_state, state, gvp, error_writes, result>>

\* node generate_image without the test of an image path already present
T2V_generate_image_Always ==
    /\ opc = "t2y_image"
    /\ OrchestratorOnly
    /\ Called("image")
    /\ \/ T2Y_Raises(<<"image generation failed">>) /\ t2v' = t2v
       \/ /\ t2v' = [t2v EXCEPT !.image_filepath = "exists"]
          /\ opc' = "t2y_video"
          /\ exc' = exc
    /\ UNCHANGED <<entry, env, args, availability, sum_state, state, gvp, error_writes, result>>

\* node generate_image
T2V_generate_image ==
    /\ opc = "t2y_image"
    /\ OrchestratorOnly
    /\ IF t2v.image_filepath # "None"
       THEN /\ opc' = "t2y_video"
            /\ UNCHANGED <<t2v, calls, exc>>
       ELSE /\ Called("image")
            /\ \/ T2Y_Raises(<<"image generation failed">>) /\ t2v' = t2v
               \/ /\ t2v' = [t2v EXCEPT !.image_filepath = "exists"]
                  /\ opc' = "t2y_video"
                  /\ exc' = exc
    /\ UNCHANGED <<entry, env, args, availability, sum_state, state, gvp, error_writes, result>>

\* node create_video: VideoProcessor.create_video and the checks of its output
T2V_create_video ==
    /\ opc = "t2y_video"
    /\ OrchestratorOnly
    /\ Called("encode")
    /\ \/ T2Y_Raises(<<"video creation failed">>) /\ t2v' = t2v
       \/ /\ t2v.image_filepath = "exists"
          /\ t2v' = [t2v EXCEPT !.video_filepath = "exists"]
          /\ opc' = "t2y_upload"
          /\ exc' = exc
    /\ UNCHANGED <<entry, env, args, availability, sum_state, state, gvp, error_writes, result>>

\* what YouTube does with an upload
YouTubeOutcomes == {"uploaded", "not_authenticated", "api_error"}

\* YouTubeUploader.upload_video: the dict it returns; has_success tells
\* whether the dict has the key "success" at all
upload_video(y) ==
    IF y = "not_authenticated"
    THEN [has_success |-> FALSE, success |-> FALSE, video_id |-> "None",
          error |-> "Failed to authenticate with YouTube"]
    ELSE IF y = "api_error"
    THEN [has_success |-> TRUE, success |-> FALSE, video_id |-> "None",
          error |-> "Failed to upload video"]
    ELSE [has_success |-> TRUE, success |-> TRUE, video_id |-> "id", error |-> ""]

\* Step 2 of text_to_youtube
T2Y_upload ==
    /\ opc = "t2y_upload"
    /\ OrchestratorOnly
    /\ Called("upload")
    /\ \E y \in YouTubeOutcomes :
         LET upload_result == upload_video(y) IN
         IF ~upload_result.has_success
         THEN \* upload_result["success"]: KeyError
              T2Y_Raises(<<"'success'">>) /\ t2v' = t2v
         ELSE IF ~upload_result.success
         THEN T2Y_Raises(<<"YouTube upload failed", upload_result.error>>) /\ t2v' = t2v
         ELSE /\ t2v' = [t2v EXCEPT !.youtube_video_id = upload_result.video_id]
              /\ opc' = "t2y_return"
              /\ exc' = NoError
    /\ UNCHANGED <<entry, env, args, availability, sum_state, state, gvp, error_writes, result>>

T2Y_Return ==
    /\ entry = "text_to_youtube" /\ opc = "t2y_return"
    /\ OrchestratorOnly
    /\ result' = IF exc # NoError
                 THEN Raised(exc)
                 ELSE [NoOutcome EXCEPT !.kind = "returned", !.status = "success",
                                        !.video_path = t2v.video_filepath,
                                        !.youtube_video_id = t2v.youtube_video_id]
    /\ opc' = "returned"
    /\ UNCHANGED <<entry, env, args, availability, sum_state, state, t2v, gvp, calls,
                   error_writes, exc>>

(***************************************************************************)
(* scripts/generate_video.py: generate_video_pipeline and                  *)
(* email_to_video_pipeline                                                 *)
(***************************************************************************)
\* VideoResult(success=False, error=str(e), ...)
Failed(e) == [NoOutcome EXCEPT !.kind = "returned", !.status = "failed", !.error = e]

\* the `except Exception as e` of generate_video_pipeline
GVP_Fails(e) ==
    /\ result' = Failed(e)
    /\ opc' = "returned"

GVP_Start ==
    /\ entry = "generate_video_pipeline" /\ opc = "start"
    /\ OrchestratorOnly
    /\ gvp' = [NoPipeline EXCEPT !.text = args.text,
                                 !.thumbnail_path = args.thumbnail_path,
                                 !.upload = args.upload,
                                 !.generate_new_thumbnail = args.generate_new_thumbnail]
    /\ opc' = "gvp_audio"
    /\ UNCHANGED <<entry, env, args, availability, sum_state, state, t2v, calls,
                   error_writes, exc, result>>

E2V_Start ==
    /\ entry = "email_to_video_pipeline" /\ opc = "start"
    /\ OrchestratorOnly
    /\ opc' = "sum_fetch"
    /\ UNCHANGED <<entry, env, args, availability, sum_state, state, t2v, gvp, calls,
                   error_writes, exc, result>>

\* fetch_and_summarize_email returns or raises; then generate_video_pipeline is called
E2V_fetch_and_summarize_email ==
    /\ entry = "email_to_video_pipeline" /\ opc = "sum_return"
    /\ OrchestratorOnly
    /\ LET r == generate_ai_news_summary(sum_state) IN
       IF r.raised
       THEN /\ result' = Failed(r.error)
            /\ opc' = "returned"
            /\ gvp' = gvp
       ELSE /\ gvp' = [NoPipeline EXCEPT !.text = r.summary.audio_script,
                                        !.upload = args.upload]
            /\ opc' = "gvp_audio"
            /\ result' = result
    /\ UNCHANGED <<entry, env, args, availability, sum_state, state, t2v, calls,
                   error_writes, exc>>

\* Step 1: audio_path = generate_audio(text)
GVP_generate_audio ==
    /\ opc = "gvp_audio"
    /\ OrchestratorOnly
    /\ Called("tts")
    /\ \/ GVP_Fails(<<"speech synthesis failed">>) /\ gvp' = gvp
       \/ /\ gvp' = [gvp EXCEPT !.audio_path = "exists"]
          /\ opc' = "gvp_thumbnail"
          /\ result' = result
    /\ UNCHANGED <<entry, env, args, availability, sum_state, state, t2v, error_writes, exc>>

\* Step 2: the given thumbnail, a generated one, or ValueError
GVP_thumbnail ==
    /\ opc = "gvp_thumbnail"
    /\ OrchestratorOnly
    /\ IF gvp.thumbnail_path = "exists"
       THEN /\ gvp' = [gvp EXCEPT !.final_thumbnail = gvp.thumbnail_path]
            /\ opc' = "gvp_video"
            /\ UNCHANGED <<calls, result>>
       ELSE IF gvp.generate_new_thumbnail
       THEN \/ \* the template is missing: FileNotFoundError before the overlay
               /\ GVP_Fails(<<"Thumbnail template not found">>)
               /\ UNCHANGED <<gvp, calls>>
            \/ /\ Called("thumbnail")
               /\ GVP_Fails(<<"thumbnail overlay failed">>)
               /\ gvp' = gvp
            \/ /\ Called("thumbnail")
               /\ gvp' = [gvp EXCEPT !.final_thumbnail = "exists"]
               /\ opc' = "gvp_video"
               /\ result' = result
       ELSE /\ GVP_Fails(<<"No thumbnail provided and generate_new_thumbnail=False">>)
            /\ UNCHANGED <<gvp, calls>>
    /\ UNCHANGED <<entry, env, args, availability, sum_state, state, t2v, error_writes, exc>>

\* Step 3: video_path = create_video(audio_path, final_thumbnail)
GVP_create_video ==
    /\ opc = "gvp_video"
    /\ OrchestratorOnly
    /\ Called("encode")
    /\ \/ GVP_Fails(<<"Video creation failed">>) /\ gvp' = gvp
       \/ /\ gvp' = [gvp EXCEPT !.video_path = "exists"]
          /\ opc' = "gvp_upload"
          /\ result' = result
    /\ UNCHANGED <<entry, env, args, availability, sum_state, state, t2v, error_writes, exc>>

\* Step 4 with the upload made whether or not it was requested
GVP_upload_Always ==
    /\ opc = "gvp_upload"
    /\ OrchestratorOnly
    /\ Called("upload")
    /\ \E y \in YouTubeOutcomes :
         LET r == upload_video(y) IN
         IF ~(r.has_success /\ r.success)
         THEN GVP_Fails(<<"YouTube upload failed", r.error>>)
         ELSE /\ result' = [NoOutcome EXCEPT !.kind = "returned", !.status = "success",
                                             !.audio_path = gvp.audio_path,
                                             !.thumbnail_path = gvp.final_thumbnail,
                                             !.video_path = gvp.video_path,
                                             !.youtube_video_id = r.video_id]
              /\ opc' = "returned"
    /\ UNCHANGED <<entry, env, args, availability, sum_state, state, t2v, gvp,
                   error_writes, exc>>

\* Step 4 and the return of VideoResult(success=True, ...)
GVP_upload ==
    /\ opc = "gvp_upload"
    /\ OrchestratorOnly
    /\ LET done(id) ==
             [NoOutcome EXCEPT !.kind = "returned", !.status = "success",
                               !.audio_path = gvp.audio_path,
                               !.thumbnail_path = gvp.final_thumbnail,
                               !.video_path = gvp.video_path,
                               !.youtube_video_id = id]
       IN
       IF gvp.upload
       THEN /\ Called("upload")
            /\ \E y \in YouTubeOutcomes :
                 LET r == upload_video(y) IN
                 \* result.get("success"): None when the key is missing
                 IF ~(r.has_success /\ r.success)
                 THEN GVP_Fails(<<"YouTube upload failed", r.error>>)
                 ELSE result' = done(r.video_id) /\ opc' = "returned"
       ELSE /\ calls' = calls
            /\ result' = done("None")
            /\ opc' = "returned"
    /\ UNCHANGED <<entry, env, args, availability, sum_state, state, t2v, gvp,
                   error_writes, exc>>

Next ==
    \/ SUM_fetch_emails_node \/ SUM_generate_summary_node
    \/ E2Y_Preflight \/ E2Y_generate_summary_node \/ E2Y_generate_thumbnail_node
    \/ E2Y_create_video_node \/ E2Y_create_video_node_returns \/ E2Y_Return
    \/ T2Y_Start \/ T2V_text_to_audio \/ T2V_generate_image \/ T2V_create_video
    \/ T2Y_upload \/ T2Y_Return
    \/ GVP_Start \/ E2V_Start \/ E2V_fetch_and_summarize_email
    \/ GVP_generate_audio \/ GVP_thumbnail \/ GVP_create_video \/ GVP_upload

OrchestratorIdle ==
    /\ entry = "text_to_youtube" /\ env = [gmail |-> "ok", matching |-> 0]
    /\ args = DefaultArgs /\ opc = "idle"
    /\ availability = NoAvailability /\ sum_state = InitialSumState
    /\ state = InitialAgentState /\ t2v = NoAudioState /\ gvp = NoPipeline
    /\ calls = NoCalls /\ error_writes = <<>> /\ exc = NoError /\ result = NoOutcome

(***************************************************************************)
(* Authentication middleware: app/middleware/auth.py                       *)
(***************************************************************************)
UPPER ==
    <<"A", "B", "C", "D", "E", "F", "G", "H", "I", "J", "K", "L", "M",
      "N", "O", "P", "Q", "R", "S", "T", "U", "V", "W", "X", "Y", "Z">>
LOWER ==
    <<"a", "b", "c", "d", "e", "f", "g", "h", "i", "j", "k", "l", "m",
      "n", "o", "p", "q", "r", "s", "t", "u", "v", "w", "x", "y", "z">>

LowerChar(c) ==
    IF \E i \in 1..Len(UPPER) : UPPER[i] = c
    THEN LOWER[CHOOSE i \in 1..Len(UPPER) : UPPER[i] = c]
    ELSE c

\* str.lower()
lower(s) == [i \in 1..Len(s) |-> LowerChar(s[i])]

\* str.partition(sep): (head, sep, tail) at the first occurrence, else (s, "", "")
partition(s, sep) ==
    LET p == find(s, sep, 1) IN
    IF p = 0 THEN <<s, <<>>, <<>>>>
    ELSE <<SubSeq(s, 1, p - 1), sep, SubSeq(s, p + Len(sep), Len(s))>>

excluded_paths ==
    {"/docs", "/openapi.json", "/redoc", "/health", "/auth/login", "/auth/register"}

HTTP_401_UNAUTHORIZED == 401
HTTP_500_INTERNAL_SERVER_ERROR == 500

\* a check that accepts every scheme
SchemeIsBearer_Any(scheme) == TRUE

\* not (scheme.lower() != "bearer")
SchemeIsBearer(scheme) == lower(scheme) = <<"b", "e", "a", "r", "e", "r">>

\* the requests a client can send
RequestPaths == excluded_paths \cup {"/protected-route", "/email-to-youtube", "/docs/"}
BearerWord == <<"B", "e", "a", "r", "e", "r">>
AuthorizationValues ==
    { <<>>,
      BearerWord \o <<" ", "t">>,
      lower(BearerWord) \o <<" ", "t">>,
      <<"B", "E", "A", "R", "E", "R", " ", "t">>,
      BearerWord \o <<" ", " ", "t">>,
      BearerWord,
      BearerWord \o <<"t">>,
      <<"B", "a", "s", "i", "c", " ", "t">>,
      <<"t">> }
NoHeader == [present |-> FALSE, value |-> <<>>]
Scopes ==
    [type : {"http", "websocket"},
     path : RequestPaths,
     authorization : {NoHeader} \cup [present : {TRUE}, value : AuthorizationValues]]
Backends == [supabase : {"configured", "missing"}, get_user : {"user", "none", "raises"}]

NoException == [kind |-> "none", status_code |-> 0, detail |-> ""]
HTTPException(status_code, detail) ==
    [kind |-> "HTTPException", status_code |-> status_code, detail |-> detail]
NoResponse == [sent |-> FALSE, status |-> 0, detail |-> ""]

AuthStart(scopes, backends) ==
    /\ scope \in scopes
    /\ backend \in backends
    /\ mpc = "start"
    /\ caught = NoException
    /\ app_calls = 0
    /\ response = NoResponse

\* the two early returns of __call__: not HTTP, or an excluded path
AM_Dispatch ==
    /\ mpc = "start"
    /\ AuthOnly
    /\ IF scope.type # "http" \/ scope.path \in excluded_paths
       THEN app_calls' = app_calls + 1 /\ mpc' = "app_outside_try"
       ELSE app_calls' = app_calls /\ mpc' = "authenticate"
    /\ UNCHANGED <<scope, backend, caught, response>>

\* the try block up to `return await self.app(scope, receive, send)`
AM_Authenticate ==
    /\ mpc = "authenticate"
    /\ AuthOnly
    /\ LET auth_header == scope.authorization
           p == partition(auth_header.value, <<" ">>)
           scheme == p[1]
           reject(detail) ==
               /\ caught' = HTTPException(HTTP_401_UNAUTHORIZED, detail)
               /\ mpc' = "except_http"
               /\ app_calls' = app_calls
       IN
       IF ~auth_header.present \/ auth_header.value = <<>>
       THEN reject("Missing Authorization header")
       ELSE IF ~SchemeIsBearer(scheme)
       THEN reject("Invalid authentication scheme")
       ELSE IF backend.supabase = "missing"
       THEN \* _get_supabase() raises RuntimeError
            /\ caught' = [kind |-> "Exception", status_code |-> 0,
                          detail |-> "SUPABASE_URL and SUPABASE_KEY must be set"]
            /\ mpc' = "except_any"
            /\ app_calls' = app_calls
       ELSE IF backend.get_user = "raises"
       THEN reject("Could not validate credentials")
       ELSE IF backend.get_user = "none"
       THEN reject("Invalid authentication credentials")
       ELSE /\ app_calls' = app_calls + 1
            /\ mpc' = "app_in_try"
            /\ caught' = caught
    /\ UNCHANGED <<scope, backend, response>>

\* the downstream application answers or raises
AM_App ==
    /\ mpc \in {"app_outside_try", "app_in_try"}
    /\ AuthOnly
    /\ \/ \E st \in {200, 404} :
            /\ response' = [sent |-> TRUE, status |-> st, detail |-> ""]
            /\ mpc' = "done"
            /\ caught' = caught
       \/ /\ response' = response
          /\ IF mpc = "app_in_try"
             THEN caught' = HTTPException(403, "Forbidden") /\ mpc' = "except_http"
             ELSE caught' = caught /\ mpc' = "raised"
       \/ /\ response' = response
          /\ IF mpc = "app_in_try"
             THEN /\ caught' = [kind |-> "Exception", status_code |-> 0, detail |-> "app error"]
                  /\ mpc' = "except_any"
             ELSE caught' = caught /\ mpc' = "raised"
    /\ UNCHANGED <<scope, backend, app_calls>>

\* except HTTPException as e: send e.status_code and e.detail
AM_SendHTTPException ==
    /\ mpc = "except_http"
    /\ AuthOnly
    /\ response' = [sent |-> TRUE, status |-> caught.status_code, detail |-> caught.detail]
    /\ mpc' = "done"
    /\ UNCHANGED <<scope, backend, caught, app_calls>>

\* except Exception as e: send 500
AM_SendInternalError ==
    /\ mpc = "except_any"
    /\ AuthOnly
    /\ response' = [sent |-> TRUE, status |-> HTTP_500_INTERNAL_SERVER_ERROR,
                    detail |-> "Internal Server error"]
    /\ mpc' = "done"
    /\ UNCHANGED <<scope, backend, caught, app_calls>>

AuthNext ==
    \/ AM_Dispatch \/ AM_Authenticate \/ AM_App
    \/ AM_SendHTTPException \/ AM_SendInternalError

(***************************************************************************)
(* YouTube uploader: app/utils/youtube.py YouTubeUploader.upload_video     *)
(***************************************************************************)
\* self.youtube at the call and what authenticate() does, with the arguments
UploadInputs ==
    [client : {"ready", "authenticates", "fails"},
     thumbnail_path : {"None", "given"},
     playlist_name : {"None", "given"},
     create_playlist_if_not_exists : BOOLEAN]

NoUpload ==
    [returned |-> FALSE, has_success |-> FALSE, success |-> FALSE,
     video_id |-> "None", playlist_id |-> "None", error |-> ""]

UploadStart(inputs) ==
    /\ uin \in inputs
    /\ upc = "start"
    /\ video_id = "None" /\ playlist_id = "None"
    /\ api_log = <<>>
    /\ uresult = NoUpload

\* request.execute() of one API request with outcome o
Executed(request, o) == api_log' = Append(api_log, <<request, o>>)

\* the outer `except Exception as e` of upload_video
UV_Fails ==
    /\ uresult' = [NoUpload EXCEPT !.returned = TRUE, !.has_success = TRUE,
                                   !.error = "Failed to upload video"]
    /\ upc' = "returned"

\* if not self.youtube: if not self.authenticate(): return {"error": ...}
UV_Authenticate ==
    /\ upc = "start"
    /\ UploadOnly
    /\ IF uin.client = "fails"
       THEN /\ uresult' = [NoUpload EXCEPT !.returned = TRUE,
                                           !.error = "Failed to authenticate with YouTube"]
            /\ upc' = "returned"
       ELSE /\ uresult' = uresult
            /\ upc' = "insert"
    /\ UNCHANGED <<uin, video_id, playlist_id, api_log>>

\* videos().insert(...).execute() and video_id = response.get('id')
UV_Insert ==
    /\ upc = "insert"
    /\ UploadOnly
    /\ \E o \in {"id", "no_id", "raised"} :
         /\ Executed("videos.insert", o)
         /\ IF o = "raised"
            THEN UV_Fails /\ video_id' = video_id
            ELSE /\ video_id' = IF o = "id" THEN "id" ELSE "None"
                 /\ upc' = "thumbnail"
                 /\ uresult' = uresult
    /\ UNCHANGED <<uin, playlist_id>>

\* the thumbnail upload with a failure of thumbnails().set left uncaught
UV_Thumbnail_Uncaught ==
    /\ upc = "thumbnail"
    /\ UploadOnly
    /\ IF uin.thumbnail_path # "None" /\ video_id # "None"
       THEN \E o \in {"ok", "raised"} :
              /\ Executed("thumbnails.set", o)
              /\ IF o = "raised"
                 THEN UV_Fails
                 ELSE upc' = "playlist" /\ uresult' = uresult
       ELSE /\ upc' = "playlist"
            /\ UNCHANGED <<api_log, uresult>>
    /\ UNCHANGED <<uin, video_id, playlist_id>>

\* if thumbnail_path and video_id: try: thumbnails().set(...) except: warning
UV_Thumbnail ==
    /\ upc = "thumbnail"
    /\ UploadOnly
    /\ IF uin.thumbnail_path # "None" /\ video_id # "None"
       THEN \E o \in {"ok", "raised"} : Executed("thumbnails.set", o)
       ELSE api_log' = api_log
    /\ upc' = "playlist"
    /\ UNCHANGED <<uin, video_id, playlist_id, uresult>>

\* if playlist_name and video_id: playlist_id = self.get_playlist_id(...)
UV_GetPlaylistId ==
    /\ upc = "playlist"
    /\ UploadOnly
    /\ IF uin.playlist_name # "None" /\ video_id # "None"
       THEN /\ \E o \in {"found", "none", "raised"} :
                 /\ Executed("playlists.list", o)
                 /\ playlist_id' = IF o = "found" THEN "existing" ELSE "None"
            /\ upc' = "create"
       ELSE /\ upc' = "return"
            /\ UNCHANGED <<api_log, playlist_id>>
    /\ UNCHANGED <<uin, video_id, uresult>>

\* if not playlist_id and create_playlist_if_not_exists: self.create_playlist(...)
UV_CreatePlaylist ==
    /\ upc = "create"
    /\ UploadOnly
    /\ IF playlist_id = "None" /\ uin.create_playlist_if_not_exists
       THEN \E o \in {"ok", "raised"} :
              /\ Executed("playlists.insert", o)
              /\ playlist_id' = IF o = "ok" THEN "created" ELSE "None"
       ELSE UNCHANGED <<api_log, playlist_id>>
    /\ upc' = "add"
    /\ UNCHANGED <<uin, video_id, uresult>>

\* if playlist_id: self.add_video_to_playlist(video_id, playlist_id)
UV_AddToPlaylist ==
    /\ upc = "add"
    /\ UploadOnly
    /\ IF playlist_id # "None"
       THEN \E o \in {"ok", "raised"} : Executed("playlistItems.insert", o)
       ELSE api_log' = api_log
    /\ upc' = "return"
    /\ UNCHANGED <<uin, video_id, playlist_id, uresult>>

\* return {"success": True, "video_id": video_id, "playlist_id": playlist_id, ...}
UV_Return ==
    /\ upc = "return"
    /\ UploadOnly
    /\ uresult' = [NoUpload EXCEPT !.returned = TRUE, !.has_success = TRUE,
                                   !.success = TRUE, !.video_id = video_id,
                                   !.playlist_id = playlist_id]
    /\ upc' = "returned"
    /\ UNCHANGED <<uin, video_id, playlist_id, api_log>>

UploadNext ==
    \/ UV_Authenticate \/ UV_Insert \/ UV_Thumbnail \/ UV_GetPlaylistId
    \/ UV_CreatePlaylist \/ UV_AddToPlaylist \/ UV_Return

(***************************************************************************)
(* Output file naming of runs that execute at the same time.  A path is    *)
(* <<stem, number, extension>>: uuid4 hands out a number never used        *)
(* before, strftime("%Y%m%d_%H%M%S") the current second.                   *)
(***************************************************************************)
MaxClock == 2
Runs == {"first", "second"}
EntryPoints == {"generate_video_pipeline", "email_to_youtube", "text_to_youtube"}
NoPath == <<"", 0, "">>

\* the files a run of each entry point writes, in the order it writes them
StagesOf(e) ==
    IF e = "generate_video_pipeline" THEN <<"audio", "thumbnail", "video">>
    ELSE IF e = "email_to_youtube" THEN <<"thumbnail", "audio", "video">>
    ELSE <<"audio", "image", "video">>

NoRun(e) == [entry |-> e, done |-> 0, audio |-> NoPath, thumbnail |-> NoPath,
             video |-> NoPath]

NamingStart ==
    /\ now = 0
    /\ next_uuid = 0
    /\ runs \in [Runs -> {NoRun(e) : e \in EntryPoints}]

\* the stage run r is about to execute, "" when it has finished
NextStage(r) ==
    IF runs[r].done < Len(StagesOf(runs[r].entry))
    THEN StagesOf(runs[r].entry)[runs[r].done + 1]
    ELSE ""

\* f"{uuid.uuid4()}<ext>"
UuidPath(ext) == <<"uuid", next_uuid, ext>>

\* f"thumbnail_{datetime.now().strftime('%Y%m%d_%H%M%S')}.png"
TimestampPath == <<"thumbnail_", now, ".png">>

\* a second passes
NM_Tick ==
    /\ now < MaxClock
    /\ NamingOnly
    /\ now' = now + 1
    /\ UNCHANGED <<next_uuid, runs>>

\* the narration is exported to {output_dir}/{uuid4}.mp3
NM_generate_audio(r) ==
    /\ NextStage(r) = "audio"
    /\ NamingOnly
    /\ runs' = [runs EXCEPT ![r].audio = UuidPath(".mp3"), ![r].done = @ + 1]
    /\ next_uuid' = next_uuid + 1
    /\ now' = now

\* the daily thumbnail is saved to {output_dir}/thumbnail_{timestamp}.png
NM_generate_thumbnail(r) ==
    /\ NextStage(r) = "thumbnail"
    /\ NamingOnly
    /\ runs' = [runs EXCEPT ![r].thumbnail = TimestampPath, ![r].done = @ + 1]
    /\ UNCHANGED <<now, next_uuid>>

\* node generate_image of text_to_video writes {uuid4}.png
NM_generate_image(r) ==
    /\ NextStage(r) = "image"
    /\ NamingOnly
    /\ runs' = [runs EXCEPT ![r].thumbnail = UuidPath(".png"), ![r].done = @ + 1]
    /\ next_uuid' = next_uuid + 1
    /\ now' = now

\* the video is encoded to {uuid4}.mp4
NM_create_video(r) ==
    /\ NextStage(r) = "video"
    /\ NamingOnly
    /\ runs' = [runs EXCEPT ![r].video = UuidPath(".mp4"), ![r].done = @ + 1]
    /\ next_uuid' = next_uuid + 1
    /\ now' = now

NamingNext ==
    \/ NM_Tick
    \/ \E r \in Runs : NM_generate_audio(r)
    \/ \E r \in Runs : NM_generate_thumbnail(r)
    \/ \E r \in Runs : NM_generate_image(r)
    \/ \E r \in Runs : NM_create_video(r)

ValidatorIdle ==
    /\ vp_paths = [out_dir_exists |-> TRUE, mkdir_ok |-> TRUE, writable |-> TRUE,
                   main_audio |-> TRUE, image |-> TRUE,
                   background_music |-> "None", free_gb |-> min_free_space_gb]
    /\ validation = [NoValidation EXCEPT !.called = TRUE, !.is_valid = TRUE]

AuthIdle ==
    /\ scope = [type |-> "http", path |-> "/health", authorization |-> NoHeader]
    /\ backend = [supabase |-> "configured", get_user |-> "user"]
    /\ mpc = "idle" /\ caught = NoException /\ app_calls = 0 /\ response = NoResponse

UploadIdle ==
    /\ uin = [client |-> "ready", thumbnail_path |-> "None", playlist_name |-> "None",
              create_playlist_if_not_exists |-> FALSE]
    /\ upc = "idle" /\ video_id = "None" /\ playlist_id = "None"
    /\ api_log = <<>> /\ uresult = NoUpload

NamingIdle ==
    /\ now = 0 /\ next_uuid = 0
    /\ runs = [r \in Runs |-> [NoRun("text_to_youtube") EXCEPT !.done = 3]]

(***************************************************************************)
(* Specifications                                                          *)
(***************************************************************************)
NarrationIdle ==
    /\ fn = "generate_audio" /\ text = <<>> /\ npc = "idle"
    /\ parts = <<>> /\ items = <<>> /\ idx = 0 /\ segments = <<>>
    /\ scratch = {} /\ synth_calls = <<>> /\ narration = NoFile /\ nerror = None

VideoIdle ==
    /\ vin = [fs |-> [out_dir_exists |-> TRUE, mkdir_ok |-> TRUE, writable |-> TRUE,
                      main_audio |-> TRUE, image |-> TRUE,
                      background_music |-> "None", free_gb |-> min_free_space_gb],
              main_duration |-> 1, background_duration |-> 1,
              main_audio_volume |-> 100, background_music_volume |-> 100]
    /\ vpc = "idle"
    /\ main_audio = NoClip /\ background_music = NoClip /\ final_audio = NoClip
    /\ handles = {} /\ out_file = "missing" /\ vresult = NoResult

NarrationInit ==
    /\ NarrationStart(NarrationFns, Scripts)
    /\ VideoIdle /\ OrchestratorIdle /\ ValidatorIdle /\ AuthIdle
    /\ UploadIdle /\ NamingIdle
SpecNarration == NarrationInit /\ [][NarrationNext]_vars

VideoInit ==
    /\ VideoStart(VideoInputs)
    /\ NarrationIdle /\ OrchestratorIdle /\ ValidatorIdle /\ AuthIdle
    /\ UploadIdle /\ NamingIdle
SpecVideo == VideoInit /\ [][VideoNext]_vars

Init ==
    /\ OrchestratorStart(Calls)
    /\ NarrationIdle /\ VideoIdle /\ ValidatorIdle /\ AuthIdle
    /\ UploadIdle /\ NamingIdle
Spec == Init /\ [][Next]_vars

ValidatorInit ==
    /\ vp_paths \in FileSystems /\ validation = NoValidation
    /\ NarrationIdle /\ VideoIdle /\ OrchestratorIdle /\ AuthIdle
    /\ UploadIdle /\ NamingIdle
SpecValidator == ValidatorInit /\ [][ValidatorNext]_vars

AuthInit ==
    /\ AuthStart(Scopes, Backends)
    /\ NarrationIdle /\ VideoIdle /\ OrchestratorIdle /\ ValidatorIdle
    /\ UploadIdle /\ NamingIdle
SpecAuth == AuthInit /\ [][AuthNext]_vars

UploadInit ==
    /\ UploadStart(UploadInputs)
    /\ NarrationIdle /\ VideoIdle /\ OrchestratorIdle /\ ValidatorIdle /\ AuthIdle
    /\ NamingIdle
SpecUpload == UploadInit /\ [][UploadNext]_vars

NamingInit ==
    /\ NamingStart
    /\ NarrationIdle /\ VideoIdle /\ OrchestratorIdle /\ ValidatorIdle /\ AuthIdle
    /\ UploadIdle
SpecNaming == NamingInit /\ [][NamingNext]_vars

(***************************************************************************)
(* Properties of the narration stitcher (SpecNarration)                    *)
(***************************************************************************)
\* the section delimiter occurs, but the script is not three parts
Malformed(t) ==
    contains(t, AUDIO_SCRIPT_DELIMITER) /\ Len(split(t, AUDIO_SCRIPT_DELIMITER)) # 3

Structured(t) == Len(split(t, AUDIO_SCRIPT_DELIMITER)) = 3

SpeechOnly(segs) == SelectSeq(segs, LAMBDA x : x.kind = "speech")
SpeechTexts(segs) == [i \in 1..Len(SpeechOnly(segs)) |-> SpeechOnly(segs)[i].text]

RECURSIVE SpeechDuration(_)
SpeechDuration(segs) ==
    IF segs = <<>> THEN 0
    ELSE (IF Head(segs).kind = "speech" THEN Head(segs).duration ELSE 0)
         + SpeechDuration(Tail(segs))

\* the pieces of the middle part that are non-empty after trimming, trimmed,
\* in their original order
NonEmptyPieces(mid) ==
    LET P == split(mid, AUDIO_SCRIPT_ITEM_DELIMITER)
        K == { k \in 1..Len(P) : strip(P[k]) # <<>> }
    IN  [j \in 1..Cardinality(K) |->
           strip(P[CHOOSE k \in K : Cardinality({ m \in K : m < k }) = j - 1])]

\* C5: a script in which the section delimiter occurs without splitting into
\* exactly three parts makes narration generation fail with a malformed-script
\* error; no unit is synthesized and no narration file is written.
C5_MalformedScriptRejected ==
    (npc # "start" /\ Malformed(text)) =>
        /\ npc = "raised" /\ nerror = "MalformedScript"
        /\ synth_calls = <<>>
        /\ ~narration.written

\* C6: a script without the section delimiter is narrated in fallback mode:
\* the run succeeds with exactly one synthesized unit, whose text is the
\* trimmed script, and no silence around it.
C6_FallbackSingleTrimmedUnit ==
    (~contains(text, AUDIO_SCRIPT_DELIMITER) /\ npc \in {"done", "raised"}
        /\ nerror # "SynthesisFailed") =>
        /\ npc = "done" /\ narration.written
        /\ Len(segments) = 1
        /\ segments[1].kind = "speech"
        /\ segments[1].text = strip(text)

\* C7: for a script that splits into exactly three parts the synthesized units
\* are the trimmed opening, then the non-empty trimmed pieces of the middle
\* part in their original order, then the trimmed closing.
C7_StructuredUnits ==
    (Structured(text) /\ npc \in {"export", "done"}) =>
        LET P == split(text, AUDIO_SCRIPT_DELIMITER)
            expected == <<strip(P[1])>> \o NonEmptyPieces(P[2]) \o <<strip(P[3])>>
        IN  /\ SpeechTexts(segments) = expected
            /\ [i \in 1..Len(synth_calls) |-> synth_calls[i].text] = expected
            /\ Len(items) = Len(NonEmptyPieces(P[2]))

C7_Witness ==
    /\ npc = "done" /\ Structured(text)
    /\ Len(items) >= 1
    /\ Len(split(parts[2], AUDIO_SCRIPT_ITEM_DELIMITER)) > Len(items)

\* C8: for a structured script with n items the stitched narration lasts the
\* synthesized durations of all units plus two section pauses plus one item
\* pause per pair of consecutive items.
C8_StitchedDuration ==
    (Structured(text) /\ npc = "done") =>
        LET n == Len(NonEmptyPieces(split(text, AUDIO_SCRIPT_DELIMITER)[2])) IN
        narration.duration =
            SpeechDuration(segments) + 2 * section_pause_ms
            + (IF n >= 1 THEN (n - 1) * item_pause_ms ELSE 0)

C8_Witness ==
    /\ npc = "done" /\ Structured(text) /\ narration.written
    /\ Len(items) >= 2

\* a clip without the duration the synthesizer gave it
Outline(seg) ==
    [kind |-> seg.kind, name |-> seg.name, text |-> seg.text,
     pause |-> IF seg.kind = "silence" THEN seg.duration ELSE 0]

Spoken(name, t) == [kind |-> "speech", name |-> name, text |-> t, pause |-> 0]
Pause(ms) == [kind |-> "silence", name |-> "", text |-> <<>>, pause |-> ms]

RECURSIVE ItemsWithPauses(_)
\* item 0, item pause, item 1, ..., item n-1
ItemsWithPauses(its) ==
    IF its = <<>> THEN <<>>
    ELSE IF Len(its) = 1 THEN <<Spoken("item", its[1])>>
    ELSE <<Spoken("item", its[1]), Pause(item_pause_ms)>> \o ItemsWithPauses(Tail(its))

\* C21: for a structured script the clips are concatenated as opening, section
\* pause, the items in script order with an item pause between every two of
\* them and none after the last, section pause, closing.
C21_ConcatenationOrder ==
    (Structured(text) /\ npc \in {"export", "done"}) =>
        LET P == split(text, AUDIO_SCRIPT_DELIMITER) IN
        [i \in 1..Len(segments) |-> Outline(segments[i])] =
            <<Spoken("opening", strip(P[1])), Pause(section_pause_ms)>>
            \o ItemsWithPauses(NonEmptyPieces(P[2]))
            \o <<Pause(section_pause_ms), Spoken("closing", strip(P[3]))>>

C21_Witness ==
    /\ fn = "generate_segmented_audio" /\ npc = "done" /\ Structured(text)
    /\ Len(items) >= 2

\* C22: when the synthesis of a unit fails the narration fails as a whole: the
\* failing call is the last one made, no narration file is exported and the
\* scratch files written so far are gone.
C22_SynthesisFailureAborts ==
    (npc = "raised" /\ nerror = "SynthesisFailed") =>
        /\ Len(synth_calls) = Len(SpeechOnly(segments)) + 1
        /\ ~narration.written
        /\ scratch = {}

C22_Witness ==
    /\ npc = "raised" /\ nerror = "SynthesisFailed"
    /\ Len(synth_calls) >= 3

(***************************************************************************)
(* Properties of the audio mixer (SpecVideo)                               *)
(***************************************************************************)
BackgroundLayers(clip) == SelectSeq(clip.layers, LAMBDA l : l.src = "background")

Mixed == vpc \in {"write", "cleanup", "returned"} /\ final_audio # NoClip

\* C9: whatever the durations of narration and background music, the mixed
\* audio track lasts exactly as long as the narration.
C9_MixedDurationEqualsNarration ==
    Mixed => final_audio.duration = vin.main_duration

\* C10: a background clip shorter than the narration contributes its
\* repetitions end to end, repetition k starting at k times the clip duration,
\* covering the narration from 0 to its end.
C10_LoopedBackgroundCoversNarration ==
    (Mixed /\ BackgroundLayers(final_audio) # <<>>
        /\ vin.background_duration < vin.main_duration) =>
        LET B == BackgroundLayers(final_audio) IN
        /\ \A k \in 1..Len(B) : B[k].start = (k - 1) * vin.background_duration
        /\ \A t \in 0..(vin.main_duration - 1) :
              \E k \in 1..Len(B) : B[k].start <= t /\ t < B[k].start + B[k].len

\* the narration alone, scaled once by main_volume
NarrationAlone ==
    volumex(AudioFileClip("main", vin.main_duration), vin.main_audio_volume)

\* a background file was there, but some step of its processing raised
BackgroundFailed ==
    Mixed /\ vin.fs.background_music = "present" /\ BackgroundLayers(final_audio) = <<>>

\* the layers that can be heard: no factor of their gain is 0
Audible(clip) ==
    SelectSeq(clip.layers, LAMBDA l : \A i \in 1..Len(l.gain) : l.gain[i] # 0)

\* C11: when a step of the background-music processing fails and the encoder
\* writes the video, create_video returns success and the audio is the
\* narration scaled by main_volume exactly once.
C11_BackgroundFailureFallsBack ==
    (vpc = "returned" /\ BackgroundFailed /\ out_file = "written") =>
        /\ vresult.success
        /\ final_audio = NarrationAlone

\* C12: a declared background-music path that is not on disk, with every
\* other precondition met, gives narration-only audio and a successful result.
C12_MissingBackgroundFallsBack ==
    (/\ vpc = "returned"
     /\ vin.fs.background_music = "missing"
     /\ vin.fs.main_audio /\ vin.fs.image /\ vin.fs.writable
     /\ vin.fs.free_gb >= min_free_space_gb
     /\ vresult.error \notin {"main audio unreadable", "image unreadable", "encode failed"}) =>
        /\ vresult.success
        /\ final_audio = NarrationAlone

\* C13: mixing with background_volume = 0 gives the same output, in what is
\* heard and in duration, as mixing the narration with no background clip.
C13_ZeroBackgroundVolumeIsNarrationOnly ==
    (Mixed /\ vin.fs.background_music = "present" /\ ~BackgroundFailed
        /\ vin.background_music_volume = 0) =>
        /\ final_audio.duration = NarrationAlone.duration
        /\ Audible(final_audio) = Audible(NarrationAlone)

\* C14: an encode call that returns without error but leaves no file, or an
\* empty one, makes create_video return a failure.
C14_EmptyOutputIsFailure ==
    (vpc = "returned" /\ out_file # "written") => ~vresult.success

\* C15: create_video always returns a VideoProcessingResult; output_path is
\* present exactly when success is true, error exactly when it is false.
C15_ResultShape ==
    /\ vpc \in {"construct", "construct_raised", "validate", "load", "background",
                "write", "cleanup", "returned"}
    /\ vresult.returned <=> vpc = "returned"
    /\ vpc = "returned" =>
          /\ vresult.output_path <=> vresult.success
          /\ (vresult.error # None) <=> ~vresult.success

C15_Witness ==
    vpc = "returned" /\ ~vresult.success /\ out_file = "written"

\* C24: on every exit of create_video after clips were opened, every audio
\* and image clip that was opened has been closed when the result is returned.
C24_HandlesClosedOnReturn ==
    vpc = "returned" => handles = {}

(***************************************************************************)
(* Properties of the orchestrators (Spec)                                  *)
(***************************************************************************)
EmailDerived == entry \in {"email_to_youtube", "email_to_video_pipeline"}

\* the probe reports no matching email and no failure for the run's window
ProbeReportsZero ==
    LET report == probe_email_availability(env) IN
    report.count = 0 /\ report.error = ""

ExpensiveCalls ==
    calls.summarize + calls.tts + calls.image + calls.thumbnail + calls.encode
    + calls.upload

\* C1: an email-derived run whose preflight probe reports a total count of 0
\* ends with the outcome `skipped` and makes no summarization, speech,
\* thumbnail, encode or upload call.
C1_ZeroCountSkips ==
    (EmailDerived /\ opc = "returned" /\ ProbeReportsZero) =>
        /\ result.kind = "returned" /\ result.status = "skipped"
        /\ ExpensiveCalls = 0

\* C2: once a stage has returned a state with the error field set, no later
\* stage does any work: no collaborator is called any more in that run.
C2_NoWorkAfterError ==
    [][(state.error # NoError \/ sum_state.error # NoError) => calls' = calls]_vars

\* C3: the error field is written at most once per run, and the error that
\* reaches the caller is the message of the first stage that failed.
C3_ErrorWrittenOnce ==
    /\ Len(error_writes) <= 1
    /\ (result.kind = "raised" /\ error_writes # <<>>) =>
           result.error = error_writes[1].error

\* C4: every entry point hands its caller a structured result that tells
\* success, skipped and failed apart; no exception reaches the caller.
C4_StructuredResultNeverRaises ==
    /\ result.kind # "raised"
    /\ opc = "returned" =>
           result.kind = "returned" /\ result.status \in {"success", "skipped", "failed"}

\* the thumbnail stage ran and failed
ThumbnailErrors ==
    {<<"thumbnail template unreadable">>, <<"Thumbnail template not found">>,
     <<"thumbnail overlay failed">>}

ThumbnailStageFailed ==
    \/ \E i \in 1..Len(error_writes) :
          error_writes[i].stage = "generate_thumbnail"
          /\ error_writes[i].error \in ThumbnailErrors
    \/ (entry \in {"generate_video_pipeline", "email_to_video_pipeline"}
        /\ result.error \in ThumbnailErrors)

\* C17: a thumbnail stage that fails does not abort the run: when every other
\* stage works the video is created and uploaded and the caller is told
\* success.
C17_ThumbnailFailureDegrades ==
    (opc = "returned" /\ ThumbnailStageFailed) =>
        /\ result.status # "failed"
        /\ (entry = "email_to_youtube" /\ state.video_result) =>
              result.kind = "returned" /\ result.status = "success"

\* C18: a failed outcome carries every artifact path the earlier stages had
\* produced.
C18_FailureCarriesArtifacts ==
    (opc = "returned" /\ (result.status = "failed" \/ result.kind = "raised")) =>
        /\ entry \in {"generate_video_pipeline", "email_to_video_pipeline"} =>
              /\ result.audio_path = gvp.audio_path
              /\ result.thumbnail_path = gvp.final_thumbnail
              /\ result.video_path = gvp.video_path
        /\ entry = "email_to_youtube" =>
              /\ result.thumbnail_path = state.thumbnail_path
              /\ result.video_path = t2v.video_filepath

\* C19: every failing outcome of upload_video, a failure to authenticate
\* included, reaches the caller of text_to_youtube as a YouTube upload failure
\* carrying the uploader's message.
C19_UploadFailureIsStructured ==
    (opc = "t2y_return" /\ calls.upload > 0 /\ t2v.youtube_video_id = "None") =>
        /\ Len(exc) = 2
        /\ exc[1] = "YouTube upload failed"
        /\ exc[2] \in {"Failed to authenticate with YouTube", "Failed to upload video"}

\* C26: a summary requested without a target date falls back to the default
\* window and queries the configured source; it does not fail before the query.
C26_DefaultWindowWhenNoDate ==
    (args.date = "None" /\ opc = "sum_generate") =>
        /\ calls.fetch > 0
        /\ sum_state.error # <<"'NoneType' object has no attribute 'strftime'">>

\* the runs of generate_video_pipeline, direct or behind email_to_video_pipeline
PipelineRun == entry \in {"generate_video_pipeline", "email_to_video_pipeline"}

C29_MissingCredentialsNeverSkipped ==
    (entry = "email_to_youtube" /\ opc = "returned") =>
        /\ availability.error = "missing_gmail_env:GMAIL_REFRESH_TOKEN" =>
              result.kind = "raised" /\ result.status # "skipped"
        /\ result.status = "skipped" <=>
              (availability.error # "missing_gmail_env:GMAIL_REFRESH_TOKEN"
               /\ availability.count = 0)

C29_Witness ==
    /\ entry = "email_to_youtube" /\ opc = "returned"
    /\ availability.error = "missing_gmail_env:GMAIL_REFRESH_TOKEN"
    /\ availability.count = 0 /\ result.kind = "raised"

\* the text-to-video graph has gone past its node generate_image
PastImageStage == opc \in {"t2y_video", "t2y_upload"} \/ calls.encode > 0

\* C30: the text-to-video graph runs generate_audio, generate_image and
\* create_video in this order; the image-generation call is made exactly when
\* the initial state has no image path, and a supplied path reaches
\* create_video unchanged.
C30_ImageGeneratedOnlyWhenAbsent ==
    entry = "text_to_youtube" =>
        /\ calls.image <= 1 /\ calls.encode <= 1 /\ calls.tts <= 1
        /\ calls.image > 0 => calls.tts = 1
        /\ calls.encode > 0 => calls.tts = 1
        /\ calls.image > 0 => args.thumbnail_path = "None"
        /\ PastImageStage =>
              /\ calls.image = 1 <=> args.thumbnail_path = "None"
              /\ args.thumbnail_path # "None" => t2v.image_filepath = args.thumbnail_path

C30_Witness ==
    /\ entry = "text_to_youtube" /\ args.thumbnail_path = "missing"
    /\ calls.tts = 1 /\ calls.image = 0 /\ calls.encode = 1
    /\ t2v.image_filepath = "missing"

(***************************************************************************)
(* Properties of the resource preflight validator (SpecValidator)          *)
(***************************************************************************)
\* C16: validate_paths_and_permissions returns (False, message), and does not
\* raise, for an output directory that cannot be created and for free space
\* below the threshold; the two messages differ.
C16_ValidatorRejectsByReturning ==
    validation.called =>
        /\ ~vp_paths.out_dir_exists =>
              /\ ~validation.raised
              /\ ~validation.is_valid
              /\ validation.error_msg \notin {None, "Insufficient disk space"}
        /\ (/\ vp_paths.out_dir_exists /\ vp_paths.writable
            /\ MissingInput(vp_paths) = None
            /\ vp_paths.free_gb < min_free_space_gb) =>
              /\ ~validation.raised
              /\ ~validation.is_valid
              /\ validation.error_msg = "Insufficient disk space"

OpenPaths ==
    {"/docs", "/openapi.json", "/redoc", "/health", "/auth/login", "/auth/register"}

\* the Authorization values whose scheme is Bearer, in any letter case
BearerValues ==
    { <<"B", "e", "a", "r", "e", "r", " ", "t">>,
      <<"b", "e", "a", "r", "e", "r", " ", "t">>,
      <<"B", "E", "A", "R", "E", "R", " ", "t">>,
      <<"B", "e", "a", "r", "e", "r", " ", " ", "t">>,
      <<"B", "e", "a", "r", "e", "r">> }

CarriesBearer == scope.authorization.present /\ scope.authorization.value \in BearerValues

VerifiedUser == backend.supabase = "configured" /\ backend.get_user = "user"

\* C20: for an HTTP request the downstream application is invoked exactly when
\* the path is excluded or a Bearer token was verified to a user; a missing
\* header, another scheme or a verification that raises is answered with 401
\* and the application is not invoked.
C20_DownstreamOnlyWhenAuthorized ==
    scope.type = "http" =>
        LET allowed == scope.path \in OpenPaths \/ (CarriesBearer /\ VerifiedUser) IN
        /\ app_calls > 0 => allowed
        /\ mpc \in {"done", "raised"} => (app_calls = 1 <=> allowed)
        /\ (/\ mpc = "done"
            /\ scope.path \notin OpenPaths
            /\ \/ ~scope.authorization.present
               \/ ~CarriesBearer
               \/ (backend.supabase = "configured" /\ backend.get_user = "raises")) =>
              /\ response.status = 401
              /\ app_calls = 0

C20_Witness ==
    /\ scope.type = "http" /\ scope.path \notin OpenPaths
    /\ mpc = "done" /\ app_calls = 1 /\ response.status = 200

(***************************************************************************)
(* Properties of the YouTube uploader (SpecUpload)                         *)
(***************************************************************************)
\* the positions in api_log of the requests of one kind
Made(request) == {i \in 1..Len(api_log) : api_log[i][1] = request}

\* the video insert was executed and its response carried an id
VideoInserted == Len(api_log) >= 1 /\ api_log[1] = <<"videos.insert", "id">>

\* C28: upload_video attempts the thumbnail upload and the playlist insertion
\* only after the video insert returned an id; no failure of the thumbnail
\* upload or of a playlist request changes the outcome, success=True with that
\* id; a playlist is created only when the lookup found none and
\* create_playlist_if_not_exists is true.
C28_ExtrasAfterInsertAndBestEffort ==
    /\ \A i \in Made("thumbnails.set") \cup Made("playlistItems.insert") :
          i > 1 /\ VideoInserted /\ video_id = "id"
    /\ (upc = "returned" /\ VideoInserted) =>
          /\ uresult.has_success /\ uresult.success
          /\ uresult.video_id = "id"
    /\ \A i \in Made("playlists.insert") :
          /\ uin.create_playlist_if_not_exists
          /\ i > 1
          /\ api_log[i - 1][1] = "playlists.list"
          /\ api_log[i - 1][2] # "found"

C28_Witness ==
    /\ upc = "returned" /\ uresult.success /\ uresult.video_id = "id"
    /\ \E i \in Made("thumbnails.set") : api_log[i][2] = "raised"
    /\ \E i \in Made("playlists.insert") : api_log[i][2] = "raised"

(***************************************************************************)
(* Properties of the output file naming (SpecNaming)                       *)
(***************************************************************************)
\* the paths run r has written so far
Written(r) == {runs[r].audio, runs[r].thumbnail, runs[r].video} \ {NoPath}

\* C25: two runs executing at the same time, also when started within the
\* same second, never write to the same narration, thumbnail or video path.
C25_RunsWriteDistinctPaths ==
    \A r1, r2 \in Runs : r1 # r2 => Written(r1) \cap Written(r2) = {}

====
